---- MODULE Spec2Model ----
(***************************************************************************)
(* Model of the environment-variable management of mirorim-cli:           *)
(* the .env store (internal/dotenv), its env.d.ts declaration mirror, the  *)
(* Babel configuration edits and the `env` sub-commands (cmd).             *)
(*                                                                         *)
(* Strings are sequences of symbols.  In the .env and env.d.ts files a     *)
(* symbol is one character; in the Babel configuration files a symbol is   *)
(* one character or one word that the code searches for as a whole.        *)
(* A file is a record [exists, content] with content the bytes on disk.    *)
(***************************************************************************)
EXTENDS Integers, Sequences, FiniteSets, TLC

VARIABLES
    projectType,     \* ProjectConfig.ProjectType: "bare" or "expo"
    envInitialized,  \* ProjectConfig.EnvInitialized
    envFile,         \* <project>/.env
    envDTS,          \* <project>/env.d.ts
    babelJS,         \* <project>/babel.config.js
    babelRC,         \* <project>/.babelrc (parsed JSON)
    store,           \* DotenvFile.Variables of the store under test
    last             \* the last operation run and the outcome it reported

vars == <<projectType, envInitialized, envFile, envDTS, babelJS, babelRC,
          store, last>>

-----------------------------------------------------------------------------
(* Bounds of the model *)

\* most variables the add command is let to put in .env
MaxVars == 2
\* most lines env.d.ts is let to grow to
MaxDTSLines == 4
\* most entries the store under test is let to hold
MaxStore == 2
\* most elements the plugins array of .babelrc is let to grow to
MaxPlugins == 2

-----------------------------------------------------------------------------
(* Strings *)

NL == "\n"
CR == "\r"

LowerLetters == <<"a","b","c","d","e","f","g","h","i","j","k","l","m",
                  "n","o","p","q","r","s","t","u","v","w","x","y","z">>
UpperLetters == <<"A","B","C","D","E","F","G","H","I","J","K","L","M",
                  "N","O","P","Q","R","S","T","U","V","W","X","Y","Z">>

\* strings.ToUpper, one symbol
UpperChar(c) ==
    IF \E i \in 1..Len(LowerLetters) : LowerLetters[i] = c
    THEN UpperLetters[CHOOSE i \in 1..Len(LowerLetters) : LowerLetters[i] = c]
    ELSE c

\* strings.ToUpper
ToUpper(s) == [i \in 1..Len(s) |-> UpperChar(s[i])]

\* unicode.IsSpace on the symbols used
IsSpace(c) == c \in {" ", "\t", NL, CR}

\* strings.HasPrefix
HasPrefix(s, p) == Len(p) <= Len(s) /\ SubSeq(s, 1, Len(p)) = p

\* strings.Contains
Contains(s, sub) ==
    \E i \in 0..(Len(s) - Len(sub)) : SubSeq(s, i + 1, i + Len(sub)) = sub

\* strings.TrimSpace
TrimSpace(s) ==
    LET idx == {i \in 1..Len(s) : ~IsSpace(s[i])}
    IN  IF idx = {} THEN <<>>
        ELSE SubSeq(s, CHOOSE i \in idx : \A j \in idx : i <= j,
                       CHOOSE i \in idx : \A j \in idx : j <= i)

\* index of the first occurrence of symbol c in s, 0 when there is none
IndexOf(s, c) ==
    LET hits == {i \in 1..Len(s) : s[i] = c}
    IN  IF hits = {} THEN 0
        ELSE CHOOSE i \in hits : \A j \in hits : i <= j

\* a split at the last "=" instead of the first
SplitAtLast(line) ==
    LET hits == {i \in 1..Len(line) : line[i] = "="}
    IN  IF hits = {} THEN <<line>>
        ELSE LET i == CHOOSE i \in hits : \A j \in hits : j <= i
             IN  <<SubSeq(line, 1, i - 1), SubSeq(line, i + 1, Len(line))>>

\* strings.SplitN(line, "=", 2)
SplitN2(line) ==
    LET i == IndexOf(line, "=")
    IN  IF i = 0 THEN <<line>>
        ELSE <<SubSeq(line, 1, i - 1), SubSeq(line, i + 1, Len(line))>>

\* bufio.Scanner with the default ScanLines split: the lines of the data,
\* each without its line end and without one trailing carriage return; a
\* final line without a line end is returned when it is not empty.  The
\* scanner's limit of 64 KiB for one line is far above the strings used here.
DropCR(line) ==
    IF Len(line) > 0 /\ line[Len(line)] = CR
    THEN SubSeq(line, 1, Len(line) - 1) ELSE line

RECURSIVE ScanLines(_)
ScanLines(data) ==
    IF data = <<>> THEN <<>>
    ELSE LET i == IndexOf(data, NL)
         IN  IF i = 0 THEN <<DropCR(data)>>
             ELSE <<DropCR(SubSeq(data, 1, i - 1))>>
                  \o ScanLines(SubSeq(data, i + 1, Len(data)))

\* strings.Join(lines, "\n")
RECURSIVE JoinLines(_)
JoinLines(lines) ==
    IF lines = <<>> THEN <<>>
    ELSE IF Len(lines) = 1 THEN lines[1]
    ELSE lines[1] \o <<NL>> \o JoinLines(Tail(lines))

-----------------------------------------------------------------------------
(* Files *)

NoFile == [exists |-> FALSE, content |-> <<>>]
File(data) == [exists |-> TRUE, content |-> data]

-----------------------------------------------------------------------------
(* internal/dotenv: the .env store *)

ExpoPrefix == <<"E","X","P","O","_","P","U","B","L","I","C","_">>

EnsureExpoPrefix(key) ==
    IF ~HasPrefix(key, ExpoPrefix) THEN ExpoPrefix \o key ELSE key

EmptyVariables == [k \in {} |-> <<>>]

\* an assignment that keeps the value a key already has
MapPutKeepsFirst(m, key, value) ==
    [k \in DOMAIN m \cup {key} |-> IF k \in DOMAIN m THEN m[k] ELSE value]

\* e.Variables[key] = value
MapPut(m, key, value) ==
    [k \in DOMAIN m \cup {key} |-> IF k = key THEN value ELSE m[k]]

\* delete(e.Variables, key)
MapDelete(m, key) == [k \in DOMAIN m \ {key} |-> m[k]]

\* the loop body of LoadEnvFile, over the scanned lines
RECURSIVE ParseLines(_, _)
ParseLines(lines, m) ==
    IF lines = <<>> THEN m
    ELSE LET line == Head(lines)
             parts == SplitN2(line)
         IN  IF HasPrefix(line, <<"#">>) \/ line = <<>>
             THEN ParseLines(Tail(lines), m)
             ELSE IF Len(parts) # 2
             THEN ParseLines(Tail(lines), m)
             ELSE ParseLines(Tail(lines),
                             MapPut(m, TrimSpace(parts[1]), TrimSpace(parts[2])))

\* LoadEnvFile: the Variables read from the file (an absent file is created
\* empty first, see LoadCreates)
LoadEnvFile(f) == ParseLines(ScanLines(f.content), EmptyVariables)

\* the file after LoadEnvFile: created empty when it did not exist
LoadCreates(f) == IF f.exists THEN f ELSE File(<<>>)

AddOrUpdateKey(m, key, value) == MapPut(m, ToUpper(key), value)

\* RemoveKey with the key upper-cased as AddOrUpdateKey does
RemoveKeyUpperCased(m, key) == MapDelete(m, ToUpper(key))

RemoveKey(m, key) == MapDelete(m, key)

ListKeys(m) == DOMAIN m

\* the orders in which `range e.Variables` may visit the keys
KeyOrders(m) ==
    {o \in [1..Cardinality(DOMAIN m) -> DOMAIN m] :
        \A i, j \in 1..Cardinality(DOMAIN m) : o[i] = o[j] => i = j}

\* the bytes SaveEnvFile writes when the map is visited in this order
RECURSIVE Serialize(_, _)
Serialize(m, order) ==
    IF order = <<>> THEN <<>>
    ELSE Head(order) \o <<"=">> \o m[Head(order)] \o <<NL>>
         \o Serialize(m, Tail(order))

\* the files SaveEnvFile may leave
SaveEnvFile(m) == {File(Serialize(m, o)) : o \in KeyOrders(m)}

-----------------------------------------------------------------------------
(* internal/dotenv: the env.d.ts declaration mirror *)

\* `declare module "@env" {`
ModuleMarker == <<"d","e","c","l","a","r","e"," ","m","o","d","u","l","e"," ",
                  "\"","@","e","n","v","\""," ","{">>

ClosingBrace == <<"}">>

\* "export const "
ExportConst == <<"e","x","p","o","r","t"," ","c","o","n","s","t"," ">>

\* ": string;"
StringType == <<":"," ","s","t","r","i","n","g",";">>

\* the bytes EnsureCorrectEnvDTSStructure writes
InitialDTS == ModuleMarker \o <<NL>> \o ClosingBrace \o <<NL>>

\* DeclLine without the strings.ToUpper
DeclLineAsTyped(key) == <<" ", " ">> \o ExportConst \o key \o StringType

\* fmt.Sprintf("  export const %s: string;", strings.ToUpper(key))
DeclLine(key) == <<" ", " ">> \o ExportConst \o ToUpper(key) \o StringType

\* fmt.Sprintf("export const %s", key)
Needle(key) == ExportConst \o key

\* EnsureCorrectEnvDTSStructure without the check of the content
EnsureOnlyCreates(f) == IF ~f.exists THEN File(InitialDTS) ELSE f

EnsureCorrectEnvDTSStructure(f) ==
    LET created == IF ~f.exists THEN File(InitialDTS) ELSE f
    IN  IF ~Contains(created.content, ModuleMarker)
        THEN File(InitialDTS)
        ELSE created

\* index of the first line the loops of UpdateEnvDTS stop at, 0 when none
FirstMatch(content, key) ==
    LET hits == {i \in 1..Len(content) : Contains(content[i], Needle(key))}
    IN  IF hits = {} THEN 0
        ELSE CHOOSE i \in hits : \A j \in hits : i <= j

\* the lines UpdateEnvDTS writes back, from the lines it read
UpdateLines(content, key, isRemove) ==
    LET i == FirstMatch(content, key)
    IN  IF isRemove
        THEN IF i # 0
             THEN SubSeq(content, 1, i - 1) \o SubSeq(content, i + 1, Len(content))
             ELSE content
        ELSE IF i # 0
             THEN [content EXCEPT ![i] = DeclLine(key)]
             ELSE IF key # <<>>
                  THEN SubSeq(content, 1, Len(content) - 1)
                       \o <<DeclLine(key), ClosingBrace>>
                  ELSE content

\* UpdateEnvDTS, when no file operation fails: the file it leaves
UpdateEnvDTS(f, key, isRemove) ==
    LET ensured == EnsureCorrectEnvDTSStructure(f)
        content == ScanLines(ensured.content)
    IN  File(JoinLines(UpdateLines(content, key, isRemove)))

-----------------------------------------------------------------------------
(* internal/dotenv: the Babel configuration *)

\* the text searched for by both modifications
DotenvName == "react-native-dotenv"

\* pluginConfig of modifyBabelJSConfig
PluginConfig == <<NL, "  ['module:", DotenvName,
                  "', { moduleName: '@env', blocklist: null, allowlist: null, safe: false, allowUndefined: false, verbose: false, }],",
                  NL>>

\* a regular expression is a sequence of symbols, Blanks standing for \s*
Blanks == "\\s*"

\* (module\.exports\s*=\s*{)
ExportsRegex == <<"module.exports", Blanks, "=", Blanks, "{">>

\* (plugins:\s*\[)
PluginsRegex == <<"plugins", ":", Blanks, "[">>

\* the index after the match of pat that starts at index i of s, 0 when
\* there is no match there
RECURSIVE MatchEnd(_, _, _)
MatchEnd(s, i, pat) ==
    IF pat = <<>> THEN i
    ELSE IF Head(pat) = Blanks
    THEN IF i <= Len(s) /\ IsSpace(s[i])
         THEN MatchEnd(s, i + 1, pat)
         ELSE MatchEnd(s, i, Tail(pat))
    ELSE IF i <= Len(s) /\ s[i] = Head(pat)
    THEN MatchEnd(s, i + 1, Tail(pat))
    ELSE 0

\* regex.ReplaceAllString(s, "$1" + added), from index i on
RECURSIVE ReplaceAllFrom(_, _, _, _)
ReplaceAllFrom(s, i, pat, added) ==
    IF i > Len(s) THEN <<>>
    ELSE LET e == MatchEnd(s, i, pat)
         IN  IF e # 0
             THEN SubSeq(s, i, e - 1) \o added \o ReplaceAllFrom(s, e, pat, added)
             ELSE <<s[i]>> \o ReplaceAllFrom(s, i + 1, pat, added)

ReplaceAllString(s, pat, added) == ReplaceAllFrom(s, 1, pat, added)

\* modifyBabelJSConfig: the file it leaves
modifyBabelJSConfig(f) ==
    IF Contains(f.content, <<DotenvName>>) THEN f
    ELSE IF ~Contains(f.content, <<"plugins">>)
    THEN File(ReplaceAllString(f.content, ExportsRegex,
                  <<NL, " ", " ", "plugins", ":", " ", "[">> \o PluginConfig
                  \o <<"]", ",">>))
    ELSE File(ReplaceAllString(f.content, PluginsRegex, PluginConfig))

\* dotenvPlugin of modifyBabelJSONConfig, a JSON object
DotenvPlugin == [kind |-> "object", text |-> <<DotenvName>>]

\* .babelrc is held parsed: valid says that json.Unmarshal succeeds, isArray
\* that "plugins" is a JSON array, plugins the elements of the array; an
\* element is a JSON string or a JSON object
NoBabelRC == [exists |-> FALSE, valid |-> FALSE, isArray |-> FALSE, plugins |-> <<>>]

\* modifyBabelJSONConfig finds the plugin among the string elements
AlreadyInJSON(rc) ==
    \E i \in 1..Len(rc.plugins) :
        /\ rc.plugins[i].kind = "string"
        /\ Contains(rc.plugins[i].text, <<DotenvName>>)

\* modifyBabelJSONConfig: the file it leaves when the JSON parses
modifyBabelJSONConfig(rc) ==
    LET plugins == IF rc.isArray THEN rc.plugins ELSE <<>>
    IN  IF AlreadyInJSON([rc EXCEPT !.plugins = plugins]) THEN rc
        ELSE [rc EXCEPT !.isArray = TRUE,
                        !.plugins = Append(plugins, DotenvPlugin)]

\* modifyBabelConfig never returning an error
BabelResultAlwaysOk(js, rc) == "ok"

\* modifyBabelConfig: "ok" or the error it returns
BabelResult(js, rc) ==
    IF js.exists THEN "ok"
    ELSE IF rc.exists THEN (IF rc.valid THEN "ok" ELSE "error")
    ELSE "error"

\* modifyBabelConfig: the two files it leaves
modifyBabelConfig(js, rc) ==
    IF js.exists THEN <<modifyBabelJSConfig(js), rc>>
    ELSE IF rc.exists /\ rc.valid THEN <<js, modifyBabelJSONConfig(rc)>>
    ELSE <<js, rc>>

-----------------------------------------------------------------------------------------------------------------------------------------------------
(* cmd: the env sub-commands *)

\* what the user may type at the key prompt of `env add`
PromptKeys == { <<>>, <<"A">>, <<"a">>, <<"A","B">> }

\* what the user may type at a value prompt
PromptValues == { <<"1">>, <<"2">> }

\* the step of `env init` that fails, if any: the npm run, the reading or
\* writing of the Babel configuration, or the creation of env.d.ts
InitFaults == {"none", "npm", "babel", "dts"}

\* the Babel configuration files a project may start with
BabelJSWithPlugins ==
    File(<<"module.exports", " ", "=", " ", "{", NL,
           "presets", ":", " ", "[", "]", ",", NL,
           "plugins", ":", " ", "[", "]", ",", NL, "}", ";">>)

BabelRCNoPlugins ==
    [exists |-> TRUE, valid |-> TRUE, isArray |-> FALSE, plugins |-> <<>>]

\* a .babelrc json.Unmarshal rejects
BabelRCInvalid ==
    [exists |-> TRUE, valid |-> FALSE, isArray |-> FALSE, plugins |-> <<>>]

BabelLayouts ==
    { <<NoFile, NoBabelRC>>, <<BabelJSWithPlugins, NoBabelRC>>,
      <<NoFile, BabelRCNoPlugins>>, <<NoFile, BabelRCInvalid>> }

\* what a command was given at its prompts and what it reported
Outcome(cmd, key, value, result) ==
    [cmd |-> cmd, key |-> key, value |-> value, result |-> result]

\* CheckEnvInitialized with the flag read as always set
CheckEnvInitializedAlways == TRUE

\* CheckEnvInitialized
CheckEnvInitialized == envInitialized

Lines(f) == ScanLines(f.content)

\* the model keeps .env and env.d.ts within its bounds
WithinBounds(m, dts) ==
    /\ Cardinality(DOMAIN m) <= MaxVars
    /\ Len(Lines(dts)) <= MaxDTSLines

\* the steps add, update and remove share once the key is known and the map
\* is changed: the mirror update (bare only), then the save
MirrorAndSave(cmd, key, value, k, m, isRemove) ==
    LET dts == IF projectType = "bare"
               THEN UpdateEnvDTS(envDTS, k, isRemove) ELSE envDTS
    IN  /\ WithinBounds(m, dts)
        /\ envDTS' = dts
        /\ envFile' \in SaveEnvFile(m)
        /\ last' = Outcome(cmd, key, value, "ok")
        /\ UNCHANGED <<projectType, envInitialized, babelJS, babelRC, store>>

\* "Environment is not initialized. Run 'env init' first."
Refused(cmd) ==
    /\ last' = Outcome(cmd, <<>>, <<>>, "not-initialized")
    /\ UNCHANGED <<projectType, envInitialized, envFile, envDTS, babelJS,
                   babelRC, store>>

\* CreateEnvFiles.  A failing UpdateEnvDTS has failed before or after
\* EnsureCorrectEnvDTSStructure wrote the file.
CreateEnvFiles(fault) ==
    LET babel == modifyBabelConfig(babelJS, babelRC)
    IN  /\ Len(babel[2].plugins) <= MaxPlugins
        /\ envFile' = LoadCreates(envFile)
        /\ UNCHANGED <<projectType, store>>
        /\ IF projectType # "bare"
           THEN /\ envInitialized' = TRUE
                /\ last' = Outcome("init", <<>>, <<>>, "ok")
                /\ UNCHANGED <<envDTS, babelJS, babelRC>>
           ELSE IF fault = "npm"
           THEN /\ last' = Outcome("init", <<>>, <<>>, "npm-failed")
                /\ UNCHANGED <<envInitialized, envDTS, babelJS, babelRC>>
           ELSE IF fault = "babel" \/ BabelResult(babelJS, babelRC) # "ok"
           THEN /\ last' = Outcome("init", <<>>, <<>>, "babel-failed")
                /\ UNCHANGED <<envInitialized, envDTS, babelJS, babelRC>>
           ELSE IF fault = "dts"
           THEN /\ babelJS' = babel[1]
                /\ babelRC' = babel[2]
                /\ envDTS' \in {envDTS, EnsureCorrectEnvDTSStructure(envDTS)}
                /\ last' = Outcome("init", <<>>, <<>>, "dts-failed")
                /\ UNCHANGED envInitialized
           ELSE /\ babelJS' = babel[1]
                /\ babelRC' = babel[2]
                /\ envDTS' = UpdateEnvDTS(envDTS, <<>>, FALSE)
                /\ envInitialized' = TRUE
                /\ last' = Outcome("init", <<>>, <<>>, "ok")

envInitCmd ==
    \E fault \in InitFaults :
        IF CheckEnvInitialized
        THEN /\ last' = Outcome("init", <<>>, <<>>, "already-initialized")
             /\ UNCHANGED <<projectType, envInitialized, envFile, envDTS,
                            babelJS, babelRC, store>>
        ELSE CreateEnvFiles(fault)

\* `env add` with this key and value typed at the prompt
AddKeyValue(key, value) ==
    IF ~CheckEnvInitialized
    THEN Refused("add")
    ELSE LET k == IF projectType = "expo" THEN EnsureExpoPrefix(key) ELSE key
             m == AddOrUpdateKey(LoadEnvFile(envFile), k, value)
         IN  MirrorAndSave("add", key, value, k, m, FALSE)

envAddCmd ==
    \E key \in PromptKeys, value \in PromptValues : AddKeyValue(key, value)

\* "No environment variables found to update." (or "to remove.")
NoKeys(cmd) ==
    /\ envFile' = LoadCreates(envFile)
    /\ last' = Outcome(cmd, <<>>, <<>>, "no-keys")
    /\ UNCHANGED <<projectType, envInitialized, envDTS, babelJS, babelRC, store>>

\* `env update` with this key selected and this value typed
UpdateKeyValue(key, value) ==
    LET k == IF projectType = "expo" THEN EnsureExpoPrefix(key) ELSE key
        m == AddOrUpdateKey(LoadEnvFile(envFile), k, value)
    IN  MirrorAndSave("update", key, value, k, m, FALSE)

envUpdateCmd ==
    IF ~CheckEnvInitialized
    THEN Refused("update")
    ELSE LET existingKeys == ListKeys(LoadEnvFile(envFile))
         IN  IF existingKeys = {}
             THEN NoKeys("update")
             ELSE \E key \in existingKeys, value \in PromptValues :
                    UpdateKeyValue(key, value)

\* `env remove` with this key selected
RemoveSelected(key) ==
    LET k == IF projectType = "expo" THEN EnsureExpoPrefix(key) ELSE key
        m == RemoveKey(LoadEnvFile(envFile), k)
    IN  MirrorAndSave("remove", key, <<>>, k, m, TRUE)

envRemoveCmd ==
    IF ~CheckEnvInitialized
    THEN Refused("remove")
    ELSE LET existingKeys == ListKeys(LoadEnvFile(envFile))
         IN  IF existingKeys = {}
             THEN NoKeys("remove")
             ELSE \E key \in existingKeys : RemoveSelected(key)

\* DestroyEnvFiles without the deletion of .env
DestroyKeepsPrimary ==
    /\ envFile' = envFile
    /\ envDTS' = IF projectType = "bare" THEN NoFile ELSE envDTS
    /\ envInitialized' = FALSE
    /\ last' = Outcome("destroy", <<>>, <<>>, "ok")
    /\ UNCHANGED <<projectType, babelJS, babelRC, store>>

\* DestroyEnvFiles deleting env.d.ts whatever the project type
DestroyDeletesMirrorAlways ==
    /\ envFile' = NoFile
    /\ envDTS' = NoFile
    /\ envInitialized' = FALSE
    /\ last' = Outcome("destroy", <<>>, <<>>, "ok")
    /\ UNCHANGED <<projectType, babelJS, babelRC, store>>

\* DestroyEnvFiles
DestroyEnvFiles ==
    /\ envFile' = NoFile
    /\ envDTS' = IF projectType = "bare" THEN NoFile ELSE envDTS
    /\ envInitialized' = FALSE
    /\ last' = Outcome("destroy", <<>>, <<>>, "ok")
    /\ UNCHANGED <<projectType, babelJS, babelRC, store>>

envDestroyCmd ==
    IF ~envInitialized
    THEN /\ last' = Outcome("destroy", <<>>, <<>>, "not-initialized")
         /\ UNCHANGED <<projectType, envInitialized, envFile, envDTS,
                        babelJS, babelRC, store>>
    ELSE DestroyEnvFiles

\* a project as `start` leaves it: configuration written, no env files yet
Init ==
    /\ projectType \in {"bare", "expo"}
    /\ envInitialized = FALSE
    /\ envFile = NoFile
    /\ envDTS = NoFile
    /\ \E b \in BabelLayouts : babelJS = b[1] /\ babelRC = b[2]
    /\ store = EmptyVariables
    /\ last = Outcome("start", <<>>, <<>>, "ok")

Next ==
    \/ envInitCmd
    \/ envAddCmd
    \/ envUpdateCmd
    \/ envRemoveCmd
    \/ envDestroyCmd

Spec == Init /\ [][Next]_vars

-----------------------------------------------------------------------------
(* Properties of the commands, checked under Spec *)

\* the keys present in the primary file
EnvKeys(f) == DOMAIN LoadEnvFile(f)

\* `export const KEY: string;`
DeclText(K) == ExportConst \o K \o StringType

\* the indexes of the declaration lines of K in the mirror file
DeclIndexes(f, K) ==
    {i \in 1..Len(Lines(f)) : Contains(Lines(f)[i], DeclText(K))}

DeclCount(f, K) == Cardinality(DeclIndexes(f, K))

\* the upper-case key K has a declaration line in the mirror file
HasDeclaration(f, K) == DeclIndexes(f, K) # {}

\* the opening line is the first line and the closing brace the last
WrapperIntact(f) ==
    /\ Len(Lines(f)) >= 2
    /\ Lines(f)[1] = ModuleMarker
    /\ Lines(f)[Len(Lines(f))] = ClosingBrace

\* K has a declaration line between the opening line and the closing brace
DeclaredInside(f, K) ==
    /\ WrapperIntact(f)
    /\ \E i \in DeclIndexes(f, K) : 1 < i /\ i < Len(Lines(f))

\* the primary file has the line KEY=value
HasEnvLine(f, K, v) ==
    \E i \in 1..Len(Lines(f)) : Lines(f)[i] = K \o <<"=">> \o v

\* C1: on an initialized bare project every key of .env has exactly one
\* declaration line in env.d.ts.  Stated for the states in which .env holds
\* no empty key, so that a violation shows two ordinary keys.
C1_EveryKeyDeclaredOnce ==
    (projectType = "bare" /\ envInitialized /\ <<>> \notin EnvKeys(envFile))
        => \A K \in EnvKeys(envFile) : DeclCount(envDTS, K) = 1

\* C3: an add of a key straight after an add of the same key (in any letter
\* case) with another value leaves the second value stored and exactly one
\* declaration line for the key.  Stated for non-empty keys.
C3_SecondAddWins ==
    [][ ( /\ projectType = "bare"
          /\ last.cmd = "add" /\ last.result = "ok"
          /\ last'.cmd = "add" /\ last'.result = "ok"
          /\ last.key # <<>>
          /\ ToUpper(last.key) = ToUpper(last'.key)
          /\ last.value # last'.value )
        => ( /\ ToUpper(last'.key) \in EnvKeys(envFile')
             /\ LoadEnvFile(envFile')[ToUpper(last'.key)] = last'.value
             /\ DeclCount(envDTS', ToUpper(last'.key)) = 1 ) ]_vars

\* C6: add, update and remove invoked while envInitialized is false report
\* the precondition failure and change neither file nor the configuration.
C6_RefusedWhenUninitialized ==
    [][ (~envInitialized /\ last'.cmd \in {"add", "update", "remove"})
        => ( /\ last'.result = "not-initialized"
             /\ envFile' = envFile
             /\ envDTS' = envDTS
             /\ envInitialized' = envInitialized
             /\ projectType' = projectType
             /\ babelJS' = babelJS /\ babelRC' = babelRC ) ]_vars

\* C6 witness: a command was refused after a destroy of an initialized
\* project, and no file exists
C6_Witness ==
    /\ ~envInitialized
    /\ last.cmd \in {"add", "update", "remove"}
    /\ last.result = "not-initialized"
    /\ ~envFile.exists /\ ~envDTS.exists
    /\ Contains(babelJS.content, <<DotenvName>>)

\* C7 as stated: after an add of k = v on a bare project the primary file has
\* the line UPPER(k)=v and the mirror has the declaration of UPPER(k) inside
\* the wrapper block.
C7_AddWritesBothFiles_AnyKey ==
    (projectType = "bare" /\ last.cmd = "add" /\ last.result = "ok")
        => ( /\ HasEnvLine(envFile, ToUpper(last.key), last.value)
             /\ DeclaredInside(envDTS, ToUpper(last.key)) )

\* C7 amended: the same for a non-empty key k.
C7_AddWritesBothFiles ==
    (projectType = "bare" /\ last.cmd = "add" /\ last.result = "ok"
        /\ last.key # <<>>)
        => ( /\ HasEnvLine(envFile, ToUpper(last.key), last.value)
             /\ DeclaredInside(envDTS, ToUpper(last.key)) )

\* C7 witness: a key typed in lower case was added next to another key
C7_Witness ==
    /\ projectType = "bare" /\ last.cmd = "add" /\ last.result = "ok"
    /\ last.key = <<"a">>
    /\ HasEnvLine(envFile, <<"A">>, last.value)
    /\ DeclaredInside(envDTS, <<"A">>)
    /\ <<"A", "B">> \in EnvKeys(envFile)

\* C8: a remove of a present key K leaves no line for K in the primary file,
\* no declaration line for K in the mirror, the declaration lines of the
\* other keys in place and the wrapper markers intact.  Stated for the
\* steps in which .env holds no empty key.
C8_RemoveDropsOnlyThatKey ==
    [][ ( /\ projectType = "bare"
          /\ last'.cmd = "remove" /\ last'.result = "ok"
          /\ <<>> \notin EnvKeys(envFile) )
        => ( /\ last'.key \notin EnvKeys(envFile')
             /\ DeclCount(envDTS', last'.key) = 0
             /\ \A J \in EnvKeys(envFile) \ {last'.key} :
                    DeclCount(envDTS', J) >= DeclCount(envDTS, J)
             /\ WrapperIntact(envDTS') ) ]_vars

\* no babel.config.js, and no .babelrc or one that is not JSON
BabelAbsentOrInvalid ==
    ~babelJS.exists /\ (~babelRC.exists \/ ~babelRC.valid)

\* a step of `env init` on a bare project that is not initialized
BareInitStep ==
    projectType = "bare" /\ ~envInitialized /\ last'.cmd = "init"

\* C15: when a step of init fails on a bare project, init reports the error,
\* no later step has run and the flag stays cleared: after a failed npm run
\* or a failed Babel modification neither the Babel configuration nor
\* env.d.ts is touched, and a project without a usable Babel configuration
\* is never initialized.
C15_InitFailureAborts ==
    [][BareInitStep =>
        /\ last'.result # "ok" => ~envInitialized'
        /\ last'.result \in {"npm-failed", "babel-failed"}
              => UNCHANGED <<babelJS, babelRC, envDTS>>
        /\ BabelAbsentOrInvalid
              => last'.result \in {"npm-failed", "babel-failed"}
        /\ last'.result = "ok" => envInitialized' /\ envDTS'.exists]_vars

\* C15 witness: on a bare project init failed at the creation of env.d.ts;
\* .env exists, the plugin is in babel.config.js, the flag is cleared
C15_Witness ==
    /\ projectType = "bare"
    /\ last.cmd = "init" /\ last.result = "dts-failed"
    /\ ~envInitialized
    /\ envFile.exists
    /\ babelJS = modifyBabelJSConfig(BabelJSWithPlugins)
    /\ babelJS # BabelJSWithPlugins

\* the react-native-dotenv entries of the plugins array of .babelrc
DotenvEntriesJSON(rc) ==
    {i \in 1..Len(rc.plugins) : Contains(rc.plugins[i].text, <<DotenvName>>)}

\* the places of babel.config.js that name react-native-dotenv
DotenvEntriesJS(f) ==
    {i \in 1..Len(f.content) : f.content[i] = DotenvName}

\* C19: modifyBabelConfig applied again to a configuration it has modified
\* (init, destroy, init) finds react-native-dotenv and changes nothing, so
\* babel.config.js and .babelrc never hold more than one
\* react-native-dotenv entry.
C19_BabelModifiedOnce ==
    /\ Cardinality(DotenvEntriesJS(babelJS)) <= 1
    /\ Cardinality(DotenvEntriesJSON(babelRC)) <= 1

-----------------------------------------------------------------------------
(* The commands on a bare project when UpdateEnvDTS fails *)

\* add, update or remove with SaveEnvFile moved before UpdateEnvDTS
MirrorFailsAfterSave(cmd, key, value, m) ==
    /\ projectType = "bare"
    /\ Cardinality(DOMAIN m) <= MaxVars
    /\ envFile' \in SaveEnvFile(m)
    /\ envDTS' \in {envDTS, EnsureCorrectEnvDTSStructure(envDTS)}
    /\ last' = Outcome(cmd, key, value, "dts-failed")
    /\ UNCHANGED <<projectType, envInitialized, babelJS, babelRC, store>>

\* add, update or remove when UpdateEnvDTS returns an error, m being the
\* Variables already changed in memory: the command prints the error and
\* returns.  UpdateEnvDTS has failed before or after
\* EnsureCorrectEnvDTSStructure wrote the file.
MirrorFails(cmd, key, value, m) ==
    /\ projectType = "bare"
    /\ Cardinality(DOMAIN m) <= MaxVars
    /\ envFile' = LoadCreates(envFile)
    /\ envDTS' \in {envDTS, EnsureCorrectEnvDTSStructure(envDTS)}
    /\ last' = Outcome(cmd, key, value, "dts-failed")
    /\ UNCHANGED <<projectType, envInitialized, babelJS, babelRC, store>>

envAddCmdFails ==
    /\ CheckEnvInitialized
    /\ \E key \in PromptKeys, value \in PromptValues :
          LET k == IF projectType = "expo" THEN EnsureExpoPrefix(key) ELSE key
              m == AddOrUpdateKey(LoadEnvFile(envFile), k, value)
          IN  MirrorFails("add", key, value, m)

envUpdateCmdFails ==
    /\ CheckEnvInitialized
    /\ \E key \in ListKeys(LoadEnvFile(envFile)), value \in PromptValues :
          LET k == IF projectType = "expo" THEN EnsureExpoPrefix(key) ELSE key
              m == AddOrUpdateKey(LoadEnvFile(envFile), k, value)
          IN  MirrorFails("update", key, value, m)

envRemoveCmdFails ==
    /\ CheckEnvInitialized
    /\ \E key \in ListKeys(LoadEnvFile(envFile)) :
          LET k == IF projectType = "expo" THEN EnsureExpoPrefix(key) ELSE key
              m == RemoveKey(LoadEnvFile(envFile), k)
          IN  MirrorFails("remove", key, <<>>, m)

\* a bare project with a babel.config.js, as `start` leaves it
FaultInit ==
    /\ Init
    /\ projectType = "bare"
    /\ babelJS = BabelJSWithPlugins

FaultNext ==
    \/ Next
    \/ envAddCmdFails
    \/ envUpdateCmdFails
    \/ envRemoveCmdFails

SpecFaults == FaultInit /\ [][FaultNext]_vars

\* C16: in add, update and remove on a bare project the mirror is updated
\* before .env is saved: when UpdateEnvDTS fails, SaveEnvFile has not been
\* called and is not called, and .env has the content it had.
C16_MirrorBeforeSave ==
    [][(last'.cmd \in {"add", "update", "remove"}
            /\ last'.result = "dts-failed")
        => /\ projectType = "bare"
           /\ envFile'.content = envFile.content
           /\ envFile'.exists]_vars

\* C16 witness: .env holds A alone, an add of AB failed at the mirror, and
\* neither file has AB
C16_Witness ==
    /\ last.cmd = "add" /\ last.result = "dts-failed"
    /\ last.key = <<"A", "B">>
    /\ EnvKeys(envFile) = { <<"A">> }
    /\ ~HasDeclaration(envDTS, <<"A", "B">>)

-----------------------------------------------------------------------------
(* A project directory that holds files of the user's before `env init`:    *)
(* CreateEnvFiles keeps a .env it finds, UpdateEnvDTS an env.d.ts it finds  *)

\* the .env files the user may have written
UserEnvFiles ==
    { NoFile, File(<<"a", "=", "1", NL>>), File(<<"A", "=", "1", NL>>) }

\* the env.d.ts files the user may have written
UserDTSFiles ==
    { NoFile,
      File(JoinLines(<<ModuleMarker, DeclLine(<<"A">>), ClosingBrace>>)) }

ProjectInit ==
    /\ projectType \in {"bare", "expo"}
    /\ envInitialized = FALSE
    /\ envFile \in UserEnvFiles
    /\ envDTS \in UserDTSFiles
    /\ babelJS = BabelJSWithPlugins
    /\ babelRC = NoBabelRC
    /\ store = EmptyVariables
    /\ last = Outcome("start", <<>>, <<>>, "ok")

SpecProject == ProjectInit /\ [][Next]_vars

\* what init and destroy leave, with the files destroy deletes given by
\* mirrorDeleted
Lifecycle(mirrorDeleted) ==
    /\ (last'.cmd = "init" /\ last'.result = "ok")
          => /\ envFile'.exists
             /\ projectType = "bare" => envDTS'.exists
             /\ envInitialized'
    /\ (last'.cmd = "destroy" /\ last'.result = "ok")
          => /\ envInitialized
             /\ ~envFile'.exists
             /\ mirrorDeleted => ~envDTS'.exists
             /\ ~envInitialized'
    /\ (last'.cmd = "destroy" /\ last'.result = "not-initialized")
          => /\ ~envInitialized
             /\ UNCHANGED <<envFile, envDTS, envInitialized, babelJS, babelRC>>
    /\ (last'.cmd = "init" /\ last'.result = "already-initialized")
          => /\ envInitialized
             /\ UNCHANGED <<envFile, envDTS, envInitialized, babelJS, babelRC>>

\* C13 as stated: a successful destroy leaves both files deleted, on either
\* project type
C13_Lifecycle_BothDeleted == [][Lifecycle(TRUE)]_vars

\* C13: a successful init leaves .env (and, on bare, env.d.ts) existing and
\* the flag set; a successful destroy leaves .env (and, on bare, env.d.ts)
\* deleted and the flag cleared; destroy with the flag cleared and init with
\* the flag set change nothing.
C13_Lifecycle == [][Lifecycle(projectType = "bare")]_vars

\* C13 witness: an expo project was destroyed; .env is gone, the flag is
\* cleared, and the env.d.ts of the user's is still there
C13_Witness ==
    /\ last.cmd = "destroy" /\ last.result = "ok"
    /\ projectType = "expo"
    /\ ~envFile.exists /\ ~envInitialized
    /\ envDTS.exists

\* C14: on an expo project no step of init, add, update, remove or destroy
\* creates, changes or deletes env.d.ts.
C14_ExpoLeavesMirrorAlone ==
    [][projectType = "expo" => envDTS' = envDTS]_vars

\* C14 witness: on an expo project that holds an env.d.ts of the user's, the
\* key AB was added to .env and env.d.ts is as the user wrote it
C14_Witness ==
    /\ projectType = "expo"
    /\ last.cmd = "add" /\ last.key = <<"A", "B">> /\ last.result = "ok"
    /\ EnsureExpoPrefix(<<"A", "B">>) \in EnvKeys(envFile)
    /\ envDTS = File(JoinLines(<<ModuleMarker, DeclLine(<<"A">>), ClosingBrace>>))

\* C17: whatever .env holds, an update of the selected key K with the value
\* V leaves a .env that maps K to V and has the keys it had before, and a
\* remove of the selected key K leaves a .env without K.
C17_UpdateChangesSelectedKey ==
    [][LET K == last'.key
           before == LoadEnvFile(envFile)
           after == LoadEnvFile(envFile')
       IN  /\ (last'.cmd = "update" /\ last'.result = "ok")
                => /\ K \in DOMAIN after
                   /\ after[K] = last'.value
                   /\ DOMAIN after = DOMAIN before
           /\ (last'.cmd = "remove" /\ last'.result = "ok")
                => K \notin DOMAIN after]_vars

-----------------------------------------------------------------------------
(* The store alone: LoadEnvFile on a primary file, then any calls of        *)
(* AddOrUpdateKey, RemoveKey, SaveEnvFile and LoadEnvFile                   *)

\* what a call was given, and the Variables (or the file) before it
Call(cmd, key, value, before) ==
    [cmd |-> cmd, key |-> key, value |-> value, result |-> "ok",
     before |-> before]

\* the primary files the store is loaded from
StoreFiles ==
    { NoFile,
      File(<<"a", "=", "1", NL>>),
      File(<<"A", "=", "1", NL, "b", " ", "=", " ", "2", NL>>),
      File(<<"#", " ", "c", NL, NL, "A", "=", "1", NL, "A", "=", "2">>),
      File(<<"x", NL, "B", "=", "1", NL>>),
      File(<<" ", "A", " ", "=", " ", "b", "=", "c", " ", NL,
             " ", "#", "x", "=", "1", NL, " ", NL>>) }

StoreKeys == { <<"A">>, <<"a">>, <<"B">> }

\* the parts of the model the store does not touch
ProjectIdle ==
    /\ projectType = "bare"
    /\ envInitialized = TRUE
    /\ babelJS = NoFile
    /\ babelRC = NoBabelRC

StoreInit ==
    /\ ProjectIdle
    /\ envDTS = NoFile
    /\ envFile \in StoreFiles
    /\ store = EmptyVariables
    /\ last = Call("new", <<>>, <<>>, EmptyVariables)

StoreLoad ==
    /\ store' = LoadEnvFile(envFile)
    /\ envFile' = LoadCreates(envFile)
    /\ last' = Call("load", <<>>, <<>>, store)
    /\ UNCHANGED <<projectType, envInitialized, envDTS, babelJS, babelRC>>

StoreAddOrUpdateKey ==
    /\ last.cmd # "new"
    /\ \E key \in StoreKeys, value \in PromptValues :
          /\ Cardinality(DOMAIN AddOrUpdateKey(store, key, value)) <= MaxStore
          /\ store' = AddOrUpdateKey(store, key, value)
          /\ last' = Call("addOrUpdateKey", key, value, store)
    /\ UNCHANGED <<projectType, envInitialized, envFile, envDTS, babelJS, babelRC>>

StoreRemoveKey ==
    /\ last.cmd # "new"
    /\ \E key \in StoreKeys :
          /\ store' = RemoveKey(store, key)
          /\ last' = Call("removeKey", key, <<>>, store)
    /\ UNCHANGED <<projectType, envInitialized, envFile, envDTS, babelJS, babelRC>>

StoreSave ==
    /\ last.cmd # "new"
    /\ envFile' \in SaveEnvFile(store)
    /\ last' = Call("save", <<>>, <<>>, store)
    /\ UNCHANGED <<projectType, envInitialized, envDTS, babelJS, babelRC, store>>

StoreNext ==
    \/ StoreLoad
    \/ StoreAddOrUpdateKey
    \/ StoreRemoveKey
    \/ StoreSave

SpecStore == StoreInit /\ [][StoreNext]_vars

\* C9: after LoadEnvFile and any calls of AddOrUpdateKey and RemoveKey every
\* key of the store is upper-case, and a call given k has acted on the entry
\* of UPPER(k).
C9_KeysUpperCase ==
    last.cmd # "new" =>
        /\ \A k \in DOMAIN store : k = ToUpper(k)
        /\ last.cmd = "removeKey" => ToUpper(last.key) \notin DOMAIN store
        /\ last.cmd = "addOrUpdateKey" =>
              /\ ToUpper(last.key) \in DOMAIN store
              /\ store[ToUpper(last.key)] = last.value

\* C10: RemoveKey of a key that is not in the store leaves the entries as
\* they were.
C10_RemoveAbsentIsNoOp ==
    (last.cmd = "removeKey" /\ last.key \notin DOMAIN last.before)
        => (store = last.before /\ last.result = "ok")

\* C10 witness: the key removed was absent while the same key in the other
\* letter case was present
C10_Witness ==
    /\ last.cmd = "removeKey"
    /\ last.key = <<"a">>
    /\ <<"a">> \notin DOMAIN last.before
    /\ <<"A">> \in DOMAIN last.before
    /\ store = last.before

\* the reference parser of a primary file, line by line: a line counts when
\* it is not blank, does not begin with `#` and holds a `=`
CountedLine(line) ==
    /\ line # <<>>
    /\ line[1] # "#"
    /\ \E i \in 1..Len(line) : line[i] = "="

\* the position of the first `=` of a counted line
FirstEquals(line) ==
    CHOOSE i \in 1..Len(line) :
        line[i] = "=" /\ \A j \in 1..(i - 1) : line[j] # "="

RefKey(line) == TrimSpace(SubSeq(line, 1, FirstEquals(line) - 1))
RefValue(line) == TrimSpace(SubSeq(line, FirstEquals(line) + 1, Len(line)))

\* the last counted line of a key gives its value
RefParse(lines) ==
    LET counted == {i \in 1..Len(lines) : CountedLine(lines[i])}
        lastOf(k) == CHOOSE i \in counted :
                        /\ RefKey(lines[i]) = k
                        /\ \A j \in counted : RefKey(lines[j]) = k => j <= i
    IN  [k \in {RefKey(lines[i]) : i \in counted} |-> RefValue(lines[lastOf(k)])]

\* C12: the Variables LoadEnvFile returns are those of the reference parser
\* on the lines of the file: blank lines, lines beginning with `#` and lines
\* without `=` give nothing, any other line is split at its first `=` with
\* both parts trimmed, and the last line of a key wins.
C12_LoadParsesAsReference ==
    last.cmd = "load" => store = RefParse(Lines(envFile))

\* C12 witness: a file with a comment, a blank line and the key A twice was
\* loaded, and A has the value of its last line
C12_Witness ==
    /\ last.cmd = "load"
    /\ Lines(envFile) = << <<"#", " ", "c">>, <<>>, <<"A", "=", "1">>,
                           <<"A", "=", "2">> >>
    /\ DOMAIN store = { <<"A">> }
    /\ store[<<"A">>] = <<"2">>

-----------------------------------------------------------------------------
(* Save and load: a store built by AddOrUpdateKey, saved, then loaded afresh *)

RoundTripKeys == { <<"a">>, <<"B">>, <<"#", "A">>, <<"A", "=">>, <<" ", "A">> }

RoundTripValues == { <<"1">>, <<" ", "1">>, <<"=", "1">>, <<>>, <<"1", " ", "2">> }

\* the store LoadEnvFile returns for a path that had no file
RoundTripInit ==
    /\ ProjectIdle
    /\ envDTS = NoFile
    /\ envFile = LoadCreates(NoFile)
    /\ store = LoadEnvFile(NoFile)
    /\ last = Call("new", <<>>, <<>>, EmptyVariables)

RoundTripAdd ==
    /\ last.cmd \in {"new", "addOrUpdateKey"}
    /\ \E key \in RoundTripKeys, value \in RoundTripValues :
          /\ Cardinality(DOMAIN AddOrUpdateKey(store, key, value)) <= MaxStore
          /\ store' = AddOrUpdateKey(store, key, value)
          /\ last' = Call("addOrUpdateKey", key, value, store)
    /\ UNCHANGED <<projectType, envInitialized, envFile, envDTS, babelJS, babelRC>>

RoundTripSave ==
    /\ last.cmd \in {"new", "addOrUpdateKey"}
    /\ envFile' \in SaveEnvFile(store)
    /\ last' = Call("save", <<>>, <<>>, store)
    /\ UNCHANGED <<projectType, envInitialized, envDTS, babelJS, babelRC, store>>

RoundTripLoad ==
    /\ last.cmd = "save"
    /\ store' = LoadEnvFile(envFile)
    /\ last' = Call("load", <<>>, <<>>, store)
    /\ UNCHANGED <<projectType, envInitialized, envFile, envDTS, babelJS, babelRC>>

RoundTripNext ==
    \/ RoundTripAdd
    \/ RoundTripSave
    \/ RoundTripLoad

SpecRoundTrip == RoundTripInit /\ [][RoundTripNext]_vars

\* a key that LoadEnvFile reads back as it was written
PlainKey(k) ==
    /\ k = TrimSpace(k)
    /\ ~Contains(k, <<"=">>)
    /\ ~HasPrefix(k, <<"#">>)

\* a value that LoadEnvFile reads back as it was written
PlainValue(v) == v = TrimSpace(v)

PlainStore(m) == \A k \in DOMAIN m : PlainKey(k) /\ PlainValue(m[k])

\* C2 as stated: the store loaded after a save has the keys and values of
\* the store that was saved, whatever strings it was built from.
C2_RoundTrip_AnyStrings ==
    last.cmd = "load" => store = last.before

\* C2 amended: it has them when no key holds "=", starts with "#" or has
\* leading or trailing white space, and no value has leading or trailing
\* white space.
C2_RoundTrip ==
    (last.cmd = "load" /\ PlainStore(last.before)) => store = last.before

\* C2 witness: two entries, one with a value holding "=", came back
C2_Witness ==
    /\ last.cmd = "load"
    /\ PlainStore(last.before)
    /\ Cardinality(DOMAIN last.before) = 2
    /\ \E k \in DOMAIN last.before : last.before[k] = <<"=", "1">>
    /\ store = last.before

-----------------------------------------------------------------------------
(* The mirror alone: UpdateEnvDTS on an env.d.ts of any prior content *)

\* the env.d.ts files UpdateEnvDTS may find
PriorDTS ==
    { NoFile,
      File(<<>>),
      \* no opening marker
      File(JoinLines(<<DeclLine(<<"A", "B">>), ClosingBrace>>) \o <<NL>>),
      \* the opening marker alone
      File(ModuleMarker),
      \* no closing brace
      File(JoinLines(<<ModuleMarker, DeclLine(<<"A">>)>>)),
      \* well formed, as the tool writes it
      File(JoinLines(<<ModuleMarker, DeclLine(<<"A">>), ClosingBrace>>)),
      \* a line after the closing brace
      File(JoinLines(<<ModuleMarker, ClosingBrace, <<"/", "/", " ", "x">> >>)) }

MirrorInit ==
    /\ ProjectIdle
    /\ envFile = NoFile
    /\ store = EmptyVariables
    /\ envDTS \in PriorDTS
    /\ last = Call("new", <<>>, <<>>, NoFile)

\* UpdateEnvDTS(path, key, value, false)
MirrorUpsert ==
    /\ \E key \in PromptKeys :
          /\ Len(Lines(UpdateEnvDTS(envDTS, key, FALSE))) <= MaxDTSLines
          /\ envDTS' = UpdateEnvDTS(envDTS, key, FALSE)
          /\ last' = Call("upsert", key, <<>>, envDTS)
    /\ UNCHANGED <<projectType, envInitialized, envFile, babelJS, babelRC, store>>

\* UpdateEnvDTS(path, key, "", true)
MirrorRemove ==
    /\ \E key \in PromptKeys :
          /\ envDTS' = UpdateEnvDTS(envDTS, key, TRUE)
          /\ last' = Call("remove", key, <<>>, envDTS)
    /\ UNCHANGED <<projectType, envInitialized, envFile, babelJS, babelRC, store>>

MirrorNext ==
    \/ MirrorUpsert
    \/ MirrorRemove

SpecMirror == MirrorInit /\ [][MirrorNext]_vars

\* a line that declares a constant
IsDeclaration(line) == Contains(line, ExportConst)

\* the opening line occurs once, the last line is the closing brace and the
\* declaration lines lie between the two
WellFormedBlock(f) ==
    LET ls == Lines(f)
        opening == {i \in 1..Len(ls) : ls[i] = ModuleMarker}
    IN  /\ Cardinality(opening) = 1
        /\ Len(ls) >= 2
        /\ ls[Len(ls)] = ClosingBrace
        /\ \A i \in 1..Len(ls) :
              IsDeclaration(ls[i]) => \A o \in opening : o < i /\ i < Len(ls)

\* C4: after any UpdateEnvDTS, whatever env.d.ts held before, the file is a
\* well-formed wrapper block.  Stated for the calls with a non-empty key.
C4_AlwaysWellFormed ==
    (last.cmd \in {"upsert", "remove"} /\ last.key # <<>>)
        => WellFormedBlock(envDTS)

\* C5: an upsert of a non-empty key K on an env.d.ts without the opening
\* marker leaves exactly the block with the one declaration of K.
C5_SelfHealing ==
    (last.cmd = "upsert" /\ last.key # <<>>
        /\ ~Contains(last.before.content, ModuleMarker))
        => Lines(envDTS) = <<ModuleMarker, DeclLine(last.key), ClosingBrace>>

\* C5 witness: the file existed, held a declaration and a closing brace
\* but no opening marker, and is now the block with the new key alone
C5_Witness ==
    /\ last.cmd = "upsert" /\ last.key = <<"a">>
    /\ last.before.exists
    /\ ~Contains(last.before.content, ModuleMarker)
    /\ Contains(last.before.content, DeclText(<<"A", "B">>))
    /\ Lines(envDTS) = <<ModuleMarker, DeclLine(<<"A">>), ClosingBrace>>

\* C11: an upsert on a well-formed env.d.ts keeps the order of the lines.
\* When the key already has a declaration line, that line is replaced where
\* it stands and no other line changes; when it has none, one line is
\* inserted just before the closing brace and the lines before it stay as
\* they were.
C11_UpsertKeepsOrder ==
    (last.cmd = "upsert" /\ last.key # <<>> /\ WellFormedBlock(last.before))
        => LET old == Lines(last.before)
               new == Lines(envDTS)
               K == ToUpper(last.key)
           IN  IF HasDeclaration(last.before, K)
               THEN /\ Len(new) = Len(old)
                    /\ \A i \in 1..Len(old) :
                          new[i] = IF i \in DeclIndexes(last.before, K)
                                   THEN DeclLine(last.key) ELSE old[i]
               ELSE new = SubSeq(old, 1, Len(old) - 1)
                            \o <<DeclLine(last.key), ClosingBrace>>

\* C18: UpdateEnvDTS with the empty key and isRemove false, as CreateEnvFiles
\* calls it, on an env.d.ts that exists and is well formed leaves every
\* declaration line as it was.
C18_EmptyKeyKeepsDeclarations ==
    (last.cmd = "upsert" /\ last.key = <<>>
        /\ last.before.exists /\ WellFormedBlock(last.before))
        => LET old == Lines(last.before)
               new == Lines(envDTS)
           IN  \A i \in 1..Len(old) :
                  IsDeclaration(old[i]) => (i <= Len(new) /\ new[i] = old[i])

====
